---- MODULE Spec2Model ----
(***************************************************************************)
(* Model of data_engineering/zillow_to_snowflake_pipeline.py: the batch    *)
(* script main() that reads the Zillow ZHVI county CSV, rewrites its       *)
(* column names and loads it into a Snowflake table.                       *)
(*                                                                         *)
(* Strings of the program are sequences of one-character strings, so that  *)
(* str.upper, str.replace and "DATE" + s are computed, not assumed.        *)
(*                                                                         *)
(* Spec         main() from its first line, for every header the document  *)
(*              at URL may carry.                                          *)
(* SpecSession  lines 89-155 of main() (connect .. close) entered with an  *)
(*              arbitrary df.columns and an arbitrary prior state of the   *)
(*              warehouse, and re-run as a new process.                    *)
(* SpecSteps    both together.                                             *)
(***************************************************************************)
EXTENDS Integers, Sequences, FiniteSets

VARIABLES
    pc,             \* position in main(), or "Done" / "Failed"
    csv_header,     \* header row of the document at URL
    df_columns,     \* df.columns
    error,          \* exception propagating out of main(), "none" if none
    exit_status,    \* exit status of the process: 0 or 1, -1 while it runs
    cnct,           \* the Snowflake connection: "none", "open", "closed"
    cursor,         \* the cursor: "none", "open", "closed"
    tables,         \* the warehouse: table name -> column names, or Absent
    snowf_columns,  \* snowf_columns, read from cursor.description
    log,            \* the steps attempted in this run, in order
    run,            \* number of the current invocation of the script
    past            \* the finished invocations: exit status and df.columns of each

vars == <<pc, csv_header, df_columns, error, exit_status, cnct, cursor,
          tables, snowf_columns, log, run, past>>

-----------------------------------------------------------------------------
(* Bounds *)

MaxCols == 2

MaxRuns == 2

-----------------------------------------------------------------------------
(* Program constants *)

TABLE == "ZHVI_COUNTY_TIMESERIES"

INITIAL_LAYOUT_COLUMN_NAMES ==
    << <<" ", "R", "E", "G", "I", "O", "N", "I", "D">>,
       <<"S", "I", "Z", "E", "R", "A", "N", "K">>,
       <<"R", "E", "G", "I", "O", "N", "T", "Y", "P", "E">>,
       <<"S", "T", "A", "T", "E", "N", "A", "M", "E">>,
       <<"S", "T", "A", "T", "E">>,
       <<"M", "E", "T", "R", "O">>,
       <<"S", "T", "A", "T", "E", "C", "O", "D", "E", "F", "I", "P", "S">>,
       <<"M", "U", "N", "I", "C", "I", "P", "A", "L", "C", "O", "D", "E", "F", "I", "P", "S">>,
       <<"R", "E", "G", "I", "O", "N", "N", "A", "M", "E">> >>

\* The table named by INITIAL_TABLE_LAYOUT.
LayoutTable == "ZILLOW_COUNTY_ZHVI_TIMESERIES"

\* The columns declared by INITIAL_TABLE_LAYOUT, in order.
LayoutColumns ==
    << <<"R", "E", "G", "I", "O", "N", "I", "D">>,
       <<"S", "I", "Z", "E", "R", "A", "N", "K">>,
       <<"R", "E", "G", "I", "O", "N", "N", "A", "M", "E">>,
       <<"R", "E", "G", "I", "O", "N", "T", "Y", "P", "E">>,
       <<"S", "T", "A", "T", "E", "N", "A", "M", "E">>,
       <<"S", "T", "A", "T", "E">>,
       <<"M", "E", "T", "R", "O">>,
       <<"S", "T", "A", "T", "E", "C", "O", "D", "E", "F", "I", "P", "S">>,
       <<"M", "U", "N", "I", "C", "I", "P", "A", "L", "C", "O", "D", "E", "F", "I", "P", "S">> >>

-----------------------------------------------------------------------------
(* Strings and lists *)

Range(s) == {s[i] : i \in DOMAIN s}

\* Python's  x in list
InList(x, list) == \E i \in DOMAIN list : list[i] = x

LowerLetters ==
    <<"a", "b", "c", "d", "e", "f", "g", "h", "i", "j", "k", "l", "m",
      "n", "o", "p", "q", "r", "s", "t", "u", "v", "w", "x", "y", "z">>

UpperLetters ==
    <<"A", "B", "C", "D", "E", "F", "G", "H", "I", "J", "K", "L", "M",
      "N", "O", "P", "Q", "R", "S", "T", "U", "V", "W", "X", "Y", "Z">>

\* str.upper()
str_upper(s) ==
    [i \in DOMAIN s |->
        IF \E k \in DOMAIN LowerLetters : LowerLetters[k] = s[i]
        THEN UpperLetters[CHOOSE k \in DOMAIN LowerLetters : LowerLetters[k] = s[i]]
        ELSE s[i]]

\* str.replace("-", "_")
str_replace(s) == [i \in DOMAIN s |-> IF s[i] = "-" THEN "_" ELSE s[i]]

\* Python values that reach add_date: a str, or a generator object.
Str(s) == [type |-> "str", val |-> s]

Generator(items) == [type |-> "generator", val |-> items]

TypeErrorValue == [type |-> "TypeError", val |-> <<>>]

\* add_date: "DATE" + date_ymd; str + non-str raises TypeError.
add_date(date_ymd) ==
    IF date_ymd.type = "str"
    THEN Str(<<"D", "A", "T", "E">> \o date_ymd.val)
    ELSE TypeErrorValue

-----------------------------------------------------------------------------
(* Inputs *)

\* The value of tables[t] when table t does not exist.
Absent == << <<"absent">> >>

\* Column names the document at URL may carry.
SourceNames ==
    { <<"R", "e", "g", "i", "o", "n", "I", "D">>,
      <<" ", "R", "e", "g", "i", "o", "n", "I", "D">>,
      <<"S", "t", "a", "t", "e">>,
      <<"2", "0", "2", "3", "-", "0", "6", "-", "3", "0">>,
      <<"2", "0", "2", "3", "-", "0", "7", "-", "3", "1">> }

DATE2023_06_30 == <<"D", "A", "T", "E", "2", "0", "2", "3", "_", "0", "6", "_", "3", "0">>

DATE2023_07_31 == <<"D", "A", "T", "E", "2", "0", "2", "3", "_", "0", "7", "_", "3", "1">>

\* Column names df.columns may hold when the session part starts.
FrameNames == { LayoutColumns[1], LayoutColumns[2], DATE2023_06_30, DATE2023_07_31 }

\* Non-empty lists of distinct names (pandas column labels of a parsed CSV).
Lists(names) ==
    { s \in UNION { [1..n -> names] : n \in 1..MaxCols } :
        \A i, j \in DOMAIN s : i # j => s[i] # s[j] }

\* States the warehouse may be in when a run starts.
Warehouses ==
    { [t \in {TABLE, LayoutTable} |-> IF t = TABLE THEN a ELSE b] :
        a \in { Absent, LayoutColumns, <<DATE2023_06_30>>,
                LayoutColumns \o <<DATE2023_06_30, DATE2023_07_31>> },
        b \in { Absent, LayoutColumns, LayoutColumns \o <<DATE2023_06_30>> } }

-----------------------------------------------------------------------------
(* The run *)

Entry(call, table, col, ok) == [call |-> call, table |-> table, col |-> col, ok |-> ok]

\* An exception leaves main(): the interpreter reports it and exits with 1.
Raise(e) ==
    /\ pc' = "Failed"
    /\ error' = e
    /\ exit_status' = 1

Continue(next) ==
    /\ pc' = next
    /\ UNCHANGED <<error, exit_status>>

\* Fetch with the connection opened before the document is read.
FetchAfterConnect ==
    /\ pc = "fetch"
    /\ cnct' = "open"
    /\ \E ok \in BOOLEAN :
        /\ log' = Append(log, Entry("read_csv", "-", <<>>, ok))
        /\ IF ok
           THEN df_columns' = csv_header /\ Continue("upper")
           ELSE Raise("FetchError") /\ UNCHANGED df_columns
    /\ UNCHANGED <<csv_header, cursor, tables, snowf_columns, run, past>>

\* df = pd.read_csv(URL)
Fetch ==
    /\ pc = "fetch"
    /\ \E ok \in BOOLEAN :
        /\ log' = Append(log, Entry("read_csv", "-", <<>>, ok))
        /\ IF ok
           THEN df_columns' = csv_header /\ Continue("upper")
           ELSE Raise("FetchError") /\ UNCHANGED df_columns
    /\ UNCHANGED <<csv_header, cnct, cursor, tables, snowf_columns, run, past>>

\* df.columns = [col.upper().replace("-", "_") for col in df.columns]
UpperColumns ==
    /\ pc = "upper"
    /\ df_columns' = [i \in DOMAIN df_columns |-> str_replace(str_upper(df_columns[i]))]
    /\ log' = Append(log, Entry("upper", "-", <<>>, TRUE))
    /\ Continue("add_date")
    /\ UNCHANGED <<csv_header, cnct, cursor, tables, snowf_columns, run, past>>

\* df.columns = [add_date(col if col in ... else col for col in df.columns)]
\* add_date receives the generator expression itself.
AddDateColumns ==
    /\ pc = "add_date"
    /\ LET arg == Generator([i \in DOMAIN df_columns |->
                     IF InList(df_columns[i], INITIAL_LAYOUT_COLUMN_NAMES)
                     THEN df_columns[i] ELSE df_columns[i]])
           res == add_date(arg)
       IN  IF res = TypeErrorValue
           THEN /\ Raise("TypeError")
                /\ log' = Append(log, Entry("add_date", "-", <<>>, FALSE))
                /\ UNCHANGED df_columns
           ELSE IF Len(df_columns) = 1
           THEN /\ df_columns' = <<res.val>>
                /\ log' = Append(log, Entry("add_date", "-", <<>>, TRUE))
                /\ Continue("connect")
           ELSE /\ Raise("ValueError")
                /\ log' = Append(log, Entry("add_date", "-", <<>>, FALSE))
                /\ UNCHANGED df_columns
    /\ UNCHANGED <<csv_header, cnct, cursor, tables, snowf_columns, run, past>>

Init ==
    /\ pc = "fetch"
    /\ csv_header \in Lists(SourceNames)
    /\ df_columns = <<>>
    /\ error = "none"
    /\ exit_status = -1
    /\ cnct = "none"
    /\ cursor = "none"
    /\ tables \in Warehouses
    /\ snowf_columns = <<>>
    /\ log = <<>>
    /\ run = 1
    /\ past = <<>>

Next == Fetch \/ UpperColumns \/ AddDateColumns

Spec == Init /\ [][Next]_vars

-----------------------------------------------------------------------------
(* The session: lines 89-155 *)

\* cnct = snow.connect(...); time.sleep(5)
Connect ==
    /\ pc = "connect"
    /\ \E ok \in BOOLEAN :
        /\ log' = Append(log, Entry("connect", "-", <<>>, ok))
        /\ IF ok
           THEN cnct' = "open" /\ Continue("cursor")
           ELSE Raise("AuthError") /\ UNCHANGED cnct
    /\ UNCHANGED <<csv_header, df_columns, cursor, tables, snowf_columns, run, past>>

\* cursor = cnct.cursor()
OpenCursor ==
    /\ pc = "cursor"
    /\ cursor' = "open"
    /\ Continue("use_warehouse")
    /\ UNCHANGED <<csv_header, df_columns, cnct, tables, snowf_columns, log, run, past>>

\* Execute with the statement's exception caught and dropped.
ExecuteSwallowing(at, stmt, next) ==
    /\ pc = at
    /\ \E ok \in BOOLEAN :
        /\ log' = Append(log, Entry(stmt, "-", <<>>, ok))
        /\ Continue(next)
    /\ UNCHANGED <<csv_header, df_columns, cnct, cursor, tables, snowf_columns, run, past>>

\* cursor.execute of a statement that leaves the tables alone.
Execute(at, stmt, next) ==
    /\ pc = at
    /\ \E ok \in BOOLEAN :
        /\ log' = Append(log, Entry(stmt, "-", <<>>, ok))
        /\ IF ok THEN Continue(next) ELSE Raise("SchemaError")
    /\ UNCHANGED <<csv_header, df_columns, cnct, cursor, tables, snowf_columns, run, past>>

\* cursor.execute("USE WAREHOUSE " + WAREHOUSE)
UseWarehouse == Execute("use_warehouse", "USE WAREHOUSE", "use_database")

\* cursor.execute("USE DATABASE " + DATABASE)
UseDatabase == Execute("use_database", "USE DATABASE", "use_schema")

\* cursor.execute("USE SCHEMA " + SCHEMA)
UseSchema == Execute("use_schema", "USE SCHEMA", "create")

\* cursor.execute("CREATE OR REPLACE TABLE " + INITIAL_TABLE_LAYOUT)
CreateOrReplaceTable ==
    /\ pc = "create"
    /\ \E ok \in BOOLEAN :
        /\ log' = Append(log, Entry("CREATE OR REPLACE TABLE", LayoutTable, <<>>, ok))
        /\ IF ok
           THEN /\ tables' = [tables EXCEPT ![LayoutTable] = LayoutColumns]
                /\ Continue("select")
           ELSE /\ Raise("SchemaError")
                /\ UNCHANGED tables
    /\ UNCHANGED <<csv_header, df_columns, cnct, cursor, snowf_columns, run, past>>

\* cursor.execute("SELECT * FROM " + TABLE + " Limit 1")
\* snowf_columns = [desc[0] for desc in cursor.description]
\* The statement is rejected when TABLE does not exist.
IntrospectSchema ==
    /\ pc = "select"
    /\ \E ok \in (IF tables[TABLE] = Absent THEN {FALSE} ELSE BOOLEAN) :
        /\ log' = Append(log, Entry("SELECT", TABLE, <<>>, ok))
        /\ IF ok
           THEN /\ snowf_columns' = tables[TABLE]
                /\ Continue("reconcile")
           ELSE /\ Raise("SchemaError")
                /\ UNCHANGED snowf_columns
    /\ UNCHANGED <<csv_header, df_columns, cnct, cursor, tables, run, past>>

\* The loop without its membership test.
ColumnsToAddUnchecked(columns) == columns

\* for col_name in snowf_columns: if col_name not in snowf_columns: ...
\* The columns for which the loop builds an ALTER TABLE statement, in order.
ColumnsToAdd(columns) ==
    SelectSeq(columns, LAMBDA col_name : ~ InList(col_name, columns))

\* ALTER TABLE <TABLE> ADD COLUMN adds[i] is accepted only when TABLE exists
\* and does not hold the column yet.
AlterAccepted(adds, i) ==
    /\ tables[TABLE] # Absent
    /\ ~ InList(adds[i], tables[TABLE] \o SubSeq(adds, 1, i - 1))

AlterEntries(adds, k) ==
    [i \in 1..k |-> Entry("ALTER TABLE ADD COLUMN", TABLE, adds[i], TRUE)]

\* The whole loop of lines 126-141: the first k statements are accepted; the
\* next one, if any, is rejected and its exception ends the run.
Reconcile ==
    /\ pc = "reconcile"
    /\ LET adds == ColumnsToAdd(snowf_columns)
       IN  \E k \in 0..Len(adds) :
            /\ \A i \in 1..k : AlterAccepted(adds, i)
            /\ tables' = IF k = 0 THEN tables
                         ELSE [tables EXCEPT ![TABLE] = @ \o SubSeq(adds, 1, k)]
            /\ IF k = Len(adds)
               THEN /\ log' = log \o AlterEntries(adds, k)
                    /\ Continue("load")
               ELSE /\ log' = log \o AlterEntries(adds, k) \o
                              <<Entry("ALTER TABLE ADD COLUMN", TABLE, adds[k + 1], FALSE)>>
                    /\ Raise("SchemaError")
    /\ UNCHANGED <<csv_header, df_columns, cnct, cursor, snowf_columns, run, past>>

\* write_pandas(cnct, df, TABLE, ..., auto_create_table=True)
\* The table is created from df when it does not exist; the rows are copied
\* into the columns named by df, which the table must hold.
WritePandas ==
    /\ pc = "load"
    /\ LET target == IF tables[TABLE] = Absent THEN df_columns ELSE tables[TABLE]
       IN  \E ok \in (IF Range(df_columns) \subseteq Range(target)
                      THEN BOOLEAN ELSE {FALSE}) :
            /\ log' = Append(log, Entry("write_pandas", TABLE, <<>>, ok))
            /\ IF ok
               THEN /\ tables' = [tables EXCEPT ![TABLE] = target]
                    /\ Continue("cursor_close")
               ELSE /\ Raise("LoadError")
                    /\ UNCHANGED tables
    /\ UNCHANGED <<csv_header, df_columns, cnct, cursor, snowf_columns, run, past>>

\* cursor.close()
CloseCursor ==
    /\ pc = "cursor_close"
    /\ cursor' = "closed"
    /\ Continue("close")
    /\ UNCHANGED <<csv_header, df_columns, cnct, tables, snowf_columns, log, run, past>>

\* cnct.close(); main() returns and the interpreter exits with 0.
CloseConnection ==
    /\ pc = "close"
    /\ cnct' = "closed"
    /\ pc' = "Done"
    /\ exit_status' = 0
    /\ UNCHANGED <<csv_header, df_columns, error, cursor, tables, snowf_columns, log, run, past>>

\* if __name__ == "__main__": main()  -- the script is started again. Nothing
\* of the finished process survives but the warehouse.
Rerun ==
    /\ pc \in {"Done", "Failed"}
    /\ run < MaxRuns
    /\ run' = run + 1
    /\ pc' = "connect"
    /\ df_columns' \in Lists(FrameNames)
    /\ error' = "none"
    /\ exit_status' = -1
    /\ cnct' = "none"
    /\ cursor' = "none"
    /\ snowf_columns' = <<>>
    /\ log' = <<>>
    /\ past' = Append(past, [exit_status |-> exit_status, df_columns |-> df_columns])
    /\ UNCHANGED <<csv_header, tables>>

InitSession ==
    /\ pc = "connect"
    /\ csv_header = <<>>
    /\ df_columns \in Lists(FrameNames)
    /\ error = "none"
    /\ exit_status = -1
    /\ cnct = "none"
    /\ cursor = "none"
    /\ tables \in Warehouses
    /\ snowf_columns = <<>>
    /\ log = <<>>
    /\ run = 1
    /\ past = <<>>

SessionStep ==
    \/ Connect
    \/ OpenCursor
    \/ UseWarehouse
    \/ UseDatabase
    \/ UseSchema
    \/ CreateOrReplaceTable
    \/ IntrospectSchema
    \/ Reconcile
    \/ WritePandas
    \/ CloseCursor
    \/ CloseConnection

NextSession == SessionStep \/ Rerun

SpecSession == InitSession /\ [][NextSession]_vars

InitSteps == Init \/ InitSession

NextSteps == Next \/ SessionStep

SpecSteps == InitSteps /\ [][NextSteps]_vars

-----------------------------------------------------------------------------
(* Properties *)

Attempts(call) == {i \in DOMAIN log : log[i].call = call}

Succeeded(call) == \E i \in Attempts(call) : log[i].ok

\* The accepted ALTER TABLE ... ADD COLUMN statements of this run that add col.
Adds(col) == {i \in Attempts("ALTER TABLE ADD COLUMN") : log[i].col = col /\ log[i].ok}

AfterReconcile == {"load", "cursor_close", "close", "Done"}

AfterIntrospect == {"reconcile"} \cup AfterReconcile

\* Calls into the external collaborators (pandas, the Snowflake connector).
CollaboratorCalls ==
    {"read_csv", "connect", "USE WAREHOUSE", "USE DATABASE", "USE SCHEMA",
     "CREATE OR REPLACE TABLE", "SELECT", "ALTER TABLE ADD COLUMN", "write_pandas"}

\* Statements and loads that touch a table.
TableCalls == {"CREATE OR REPLACE TABLE", "SELECT", "ALTER TABLE ADD COLUMN", "write_pandas"}

SpecifiedNames(header) ==
    [i \in DOMAIN header |->
        LET col == str_replace(str_upper(header[i]))
        IN  IF InList(col, INITIAL_LAYOUT_COLUMN_NAMES)
            THEN col
            ELSE <<"D", "A", "T", "E">> \o col]

\* C3: once the normalize step has run, df.columns holds one name per source
\* column, in order: a fixed column unmodified, any other column as DATE
\* followed by its upper-cased, dash-to-underscore name.
C3_NormalizedColumns ==
    Attempts("add_date") # {} =>
        /\ error = "none"
        /\ df_columns = SpecifiedNames(csv_header)

\* C4: the reconcile step never issues an ADD COLUMN for a column already in
\* the destination schema, and the loop run again on the table it leaves
\* behind issues no ADD COLUMN and raises nothing.
C4_ReconcileIdempotent ==
    /\ \A i \in Attempts("ALTER TABLE ADD COLUMN") : ~ InList(log[i].col, snowf_columns)
    /\ pc \in AfterReconcile => ColumnsToAdd(tables[TABLE]) = <<>>
    /\ Attempts("SELECT") # {} /\ pc = "Failed" =>
            log[Len(log)].call # "ALTER TABLE ADD COLUMN"

\* C4 witness: the loop has finished on a non-empty destination schema while
\* df holds a column the schema lacks.
C4_Witness ==
    /\ pc = "load"
    /\ snowf_columns # <<>>
    /\ \E c \in Range(df_columns) : ~ InList(c, snowf_columns)

\* C5: once the fetch has failed, no statement or load against a table has
\* been issued, and the run does not terminate with the session open.
C5_FetchFailureTouchesNothing ==
    (\E i \in Attempts("read_csv") : ~ log[i].ok) =>
        /\ \A i \in DOMAIN log : log[i].call \notin TableCalls
        /\ pc \in {"Done", "Failed"} => cnct # "open"

\* C5 witness: a run ended by the failure of the fetch.
C5_Witness ==
    /\ pc = "Failed"
    /\ error = "FetchError"
    /\ \E i \in Attempts("read_csv") : ~ log[i].ok

\* C6: a run in which no call to an external collaborator has failed never
\* enters Failed.
C6_SuccessfulRunNeverFails ==
    (\A i \in DOMAIN log : log[i].call \in CollaboratorCalls => log[i].ok) =>
        pc # "Failed"

C8_FailFast ==
    /\ \A i, j \in DOMAIN log :
            (log[i].call = log[j].call /\ log[i].col = log[j].col) => i = j
    /\ \A i \in DOMAIN log :
            ~ log[i].ok =>
                /\ i = Len(log)
                /\ pc = "Failed"
                /\ error # "none"
    /\ pc = "Failed" => exit_status = 1 /\ error # "none"
    /\ exit_status = 0 <=> pc = "Done"
    /\ pc = "Done" => error = "none"

\* C8 witness: a run ended by the rejection of a SQL statement after the
\* session was opened.
C8_Witness ==
    /\ pc = "Failed"
    /\ exit_status = 1
    /\ \E i \in Attempts("USE SCHEMA") : ~ log[i].ok

====
